---- MODULE Spec2Model ----
\* Verification model of the DougHub5 read-only diagnostic scripts:
\*   diagnose_inbox.py, list_template_items.py and scan_backups.py.
\* Text is a sequence of character codes; SQL NULL / Python None is the
\* empty option <<>> and a present value v is <<v>> where the difference
\* between NULL and the empty text matters (titles).
EXTENDS Integers, Sequences, FiniteSets, TLC

VARIABLES
    script,        \* which script is running; "none" in the query/title specifications
    pc,            \* position in the running script
    fs,            \* the file system: path -> kind of the object at that path
    fs0,           \* the file system as it was before the run
    rows,          \* the contents of source_items in every readable database
    now,           \* the clock read by datetime('now') / date('now')
    out,           \* the lines printed so far
    handles,       \* the database handles that are open
    nextId,        \* the number of handles opened so far
    conn,          \* the script variable conn (<<>> unbound, <<h>> bound)
    c,             \* the script variable c, the cursor; it keeps its connection alive
    raised,        \* TRUE once an exception has left the script
    backup_files,  \* the script variable backup_files
    k,             \* index of the backup file the loop is at
    title,         \* the title handed to a display expression
    shown          \* the result of the last query or display expression

vars == <<script, pc, fs, fs0, rows, now, out, handles, nextId, conn, c,
          raised, backup_files, k, title, shown>>

\* ------------------------------------------------------------------
\* Bounds
\* ------------------------------------------------------------------
MaxRows == 2          \* rows of the exhaustively enumerated tables
MaxPatternRows == 17  \* rows of the generated long tables
MaxTitleLen == 52     \* longest title
MaxRunRows == 1       \* rows of source_items during a script run

\* ------------------------------------------------------------------
\* Text
\* ------------------------------------------------------------------
Chr == [sp |-> 32, dash |-> 45, dot |-> 46, zero |-> 48, T |-> 84,
        a |-> 97, b |-> 98, d |-> 100, h |-> 104, l |-> 108, m |-> 109,
        s |-> 115, w |-> 119]

Digit(n) == Chr.zero + n

\* Bytewise comparison of two texts (memcmp, then length): SQLite's BINARY
\* collation, Python's str comparison.
RECURSIVE TextLess(_, _)
TextLess(s, t) ==
    IF s = <<>> THEN t # <<>>
    ELSE IF t = <<>> THEN FALSE
    ELSE IF Head(s) # Head(t) THEN Head(s) < Head(t)
    ELSE TextLess(Tail(s), Tail(t))

TextLeq(s, t) == s = t \/ TextLess(s, t)

EndsWith(s, suf) ==
    /\ Len(s) >= Len(suf)
    /\ SubSeq(s, Len(s) - Len(suf) + 1, Len(s)) = suf

\* ------------------------------------------------------------------
\* Timestamps.  An instant is (day, hour); the stored text is a two digit
\* day, a separator and a two digit hour.  The application may store the
\* ISO 8601 form (separator T) or the SQL form (separator space).
\* ------------------------------------------------------------------
Fmt(day, hour, sep) ==
    <<Digit(day \div 10), Digit(day % 10), sep,
      Digit(hour \div 10), Digit(hour % 10)>>

\* SQLite datetime(): always the SQL form.
SqlDatetime(day, hour) == Fmt(day, hour, Chr.sp)

\* the instant a stored text denotes
DayOf(t) == (t[1] - Chr.zero) * 10 + (t[2] - Chr.zero)
HourOf(t) == (t[4] - Chr.zero) * 10 + (t[5] - Chr.zero)

\* ------------------------------------------------------------------
\* Program constants
\* ------------------------------------------------------------------
InboxWidth == 50      \* diagnose_inbox.py: row[1][:50]
CuratedWidth == 40    \* diagnose_inbox.py: row[0][:40]
TodayWidth == 35      \* diagnose_inbox.py: row[0][:35]
ScanWidth == 40       \* scan_backups.py: item[0][:40]
TemplateWidth == 50   \* list_template_items.py: row[1][:50]
InboxLimit == 15      \* diagnose_inbox.py: LIMIT 15
CuratedLimit == 10    \* diagnose_inbox.py: LIMIT 10
ScanLimit == 5        \* scan_backups.py: LIMIT 5
WindowDays == 14      \* diagnose_inbox.py: '-14 days'

\* ------------------------------------------------------------------
\* source_items: a table is a sequence of rows in rowid order
\* ------------------------------------------------------------------
NullStatus == "NULL"

Row(st, cr, up, ti) == [status |-> st, createdAt |-> cr, updatedAt |-> up, title |-> ti]

Min(a, b) == IF a < b THEN a ELSE b

\* COUNT(*) ... GROUP BY status: one scan of the table, one accumulator per
\* distinct status (NULL is a status of its own), in order of first appearance.
RECURSIVE Bump(_, _)
Bump(groups, st) ==
    IF groups = <<>> THEN <<<<st, 1>>>>
    ELSE IF Head(groups)[1] = st
         THEN <<<<st, Head(groups)[2] + 1>>>> \o Tail(groups)
         ELSE <<Head(groups)>> \o Bump(Tail(groups), st)

\* a grouping that leaves the rows with a NULL status out
RECURSIVE GroupByStatusSkipNull(_)
GroupByStatusSkipNull(t) ==
    IF t = <<>> THEN <<>>
    ELSE IF t[Len(t)].status = NullStatus
         THEN GroupByStatusSkipNull(SubSeq(t, 1, Len(t) - 1))
         ELSE Bump(GroupByStatusSkipNull(SubSeq(t, 1, Len(t) - 1)), t[Len(t)].status)

RECURSIVE GroupByStatus(_)
GroupByStatus(t) ==
    IF t = <<>> THEN <<>>
    ELSE Bump(GroupByStatus(SubSeq(t, 1, Len(t) - 1)), t[Len(t)].status)

\* SELECT COUNT(*) FROM source_items
CountAll(t) == Len(t)

\* WHERE status = '<st>' (NULL = 'x' is not true)
WhereStatus(t, st) == SelectSeq(t, LAMBDA r : r.status = st /\ r.status # NullStatus)

\* ORDER BY <key> DESC: NULL (the empty text) sorts below every text
RECURSIVE InsertDesc(_, _, _)
InsertDesc(s, r, key) ==
    IF s = <<>> THEN <<r>>
    ELSE IF TextLess(Head(s)[key], r[key]) THEN <<r>> \o s
    ELSE <<Head(s)>> \o InsertDesc(Tail(s), r, key)

RECURSIVE OrderByDesc(_, _)
OrderByDesc(t, key) ==
    IF t = <<>> THEN <<>>
    ELSE InsertDesc(OrderByDesc(SubSeq(t, 1, Len(t) - 1), key), t[Len(t)], key)

\* a LIMIT that is off by one
LimitOneMore(t, n) == SubSeq(t, 1, Min(n + 1, Len(t)))

\* LIMIT n
Limit(t, n) == SubSeq(t, 1, Min(n, Len(t)))

\* diagnose_inbox: CURRENT INBOX ITEMS
DiagInboxQuery(t) == Limit(OrderByDesc(WhereStatus(t, "inbox"), "createdAt"), InboxLimit)

\* diagnose_inbox: RECENTLY CURATED
DiagCuratedQuery(t) == Limit(OrderByDesc(WhereStatus(t, "curated"), "updatedAt"), CuratedLimit)

\* scan_backups: inbox sample
ScanInboxQuery(t) == Limit(OrderByDesc(WhereStatus(t, "inbox"), "createdAt"), ScanLimit)

\* list_template_items: INBOX ITEMS (no LIMIT)
TemplateInboxQuery(t) == OrderByDesc(WhereStatus(t, "inbox"), "createdAt")

\* list_template_items: PROCESSED / CURATED ITEMS (no ORDER BY, no LIMIT)
TemplateStatusQuery(t, st) == WhereStatus(t, st)

\* diagnose_inbox: WHERE createdAt >= datetime('now', '-14 days'); a text
\* comparison of the stored createdAt with the SQL form of the boundary.
InWindow(r, n) ==
    /\ r.createdAt # <<>>
    /\ TextLeq(SqlDatetime(n.day - WindowDays, n.hour), r.createdAt)

WindowQuery(t, n) == GroupByStatus(SelectSeq(t, LAMBDA r : InWindow(r, n)))

\* diagnose_inbox: WHERE date(createdAt) = date('now') ORDER BY createdAt DESC
TodayQuery(t, n) ==
    OrderByDesc(SelectSeq(t, LAMBDA r : r.createdAt # <<>> /\ DayOf(r.createdAt) = n.day),
                "createdAt")

\* ------------------------------------------------------------------
\* Title display
\* ------------------------------------------------------------------
Ellipsis == <<Chr.dot, Chr.dot, Chr.dot>>
NoTitle == <<40, 110, 111, 32, 116, 105, 116, 108, 101, 41>>     \* "(no title)"

\* Python truth of an optional text: None and '' are false
Truthy(ti) == ti # <<>> /\ ti[1] # <<>>

\* a display that already cuts a title of exactly W characters
DisplayCutsAtW(ti, W) ==
    IF Truthy(ti) /\ Len(ti[1]) >= W THEN SubSeq(ti[1], 1, W) \o Ellipsis
    ELSE IF Truthy(ti) THEN ti[1]
    ELSE NoTitle

\* (t[:W] + "...") if t and len(t) > W else t or "(no title)"
Display(ti, W) ==
    IF Truthy(ti) /\ Len(ti[1]) > W THEN SubSeq(ti[1], 1, W) \o Ellipsis
    ELSE IF Truthy(ti) THEN ti[1]
    ELSE NoTitle

\* row[1][:50] if row[1] else '(no title)'
DisplayCut(ti, W) ==
    IF Truthy(ti) THEN SubSeq(ti[1], 1, Min(W, Len(ti[1]))) ELSE NoTitle

\* ------------------------------------------------------------------
\* Inputs of the query and title specifications
\* ------------------------------------------------------------------
\* the clock: the boundary of the 14 day window falls on day 1
Nows == {[day |-> WindowDays + 1, hour |-> h] : h \in 0..1}

\* stored createdAt values around the boundary, in both stored forms
CreatedSamples ==
    {Fmt(0, 1, Chr.T), Fmt(1, 0, Chr.T), Fmt(1, 0, Chr.sp),
     Fmt(1, 1, Chr.sp), Fmt(1, 1, Chr.T), Fmt(WindowDays + 1, 0, Chr.T)}

\* updatedAt of the enumerated rows: absent for the oldest rows, otherwise
\* running against createdAt
UpdatedFor(cr) ==
    IF DayOf(cr) = 0 THEN <<>> ELSE Fmt(WindowDays + 2 - DayOf(cr), HourOf(cr), Chr.T)

SmallRows ==
    {Row(st, cr, UpdatedFor(cr), <<>>) :
        st \in {"inbox", "curated", NullStatus}, cr \in CreatedSamples}

SeqsUpTo(S, n) == UNION {[1..m -> S] : m \in 0..n}

SmallTables == SeqsUpTo(SmallRows, MaxRows)

\* long tables, generated: enough rows of one status to reach every LIMIT
StatusCycle == <<"inbox", "curated", "processed", NullStatus>>

PatternRow(i, p, q) ==
    Row(IF p = 0 THEN "inbox" ELSE IF p = 1 THEN "curated" ELSE StatusCycle[(i % 4) + 1],
        Fmt((i * q) % 5, 0, Chr.T),
        IF i % 3 = 0 THEN <<>> ELSE Fmt((i * (q + 1)) % 4, 0, Chr.sp),
        <<>>)

PatternTables ==
    {[i \in 1..n |-> PatternRow(i, p, q)] : n \in 0..MaxPatternRows, p \in 0..2, q \in 1..2}

Tables == SmallTables \cup PatternTables

TitleText(n, p) == [i \in 1..n |-> Chr.a + ((i * p) % 3)]

Titles == {<<>>} \cup {<<TitleText(n, p)>> : n \in 0..MaxTitleLen, p \in 1..2}

\* the variables a specification does not use
NoRun ==
    /\ script = "none"
    /\ fs = <<>>
    /\ fs0 = <<>>
    /\ out = <<>>
    /\ handles = {}
    /\ nextId = 0
    /\ conn = <<>>
    /\ c = <<>>
    /\ raised = FALSE
    /\ backup_files = <<>>
    /\ k = 0

RunVars == <<script, fs, fs0, out, handles, nextId, conn, c, raised, backup_files, k>>

\* ------------------------------------------------------------------
\* SpecQuery: every query of the scripts applied to a table
\* ------------------------------------------------------------------
InitQuery ==
    /\ NoRun
    /\ pc = "query"
    /\ rows \in Tables
    /\ now \in Nows
    /\ title = <<>>
    /\ shown = [q |-> "none"]

Answer(r) ==
    /\ pc = "query"
    /\ pc' = "answered"
    /\ shown' = r
    /\ UNCHANGED <<rows, now, title>>
    /\ UNCHANGED RunVars

\* diagnose_inbox STATUS COUNTS, scan_backups "Status counts" / "Total items"
QStatusCounts ==
    Answer([q |-> "counts", groups |-> GroupByStatus(rows), total |-> CountAll(rows)])

QDiagInbox ==
    Answer([q |-> "diag_inbox", st |-> "inbox", limit |-> InboxLimit,
            res |-> DiagInboxQuery(rows)])

QDiagCurated ==
    Answer([q |-> "diag_curated", st |-> "curated", limit |-> CuratedLimit,
            res |-> DiagCuratedQuery(rows)])

QScanInbox ==
    Answer([q |-> "scan_inbox", st |-> "inbox", limit |-> ScanLimit,
            res |-> ScanInboxQuery(rows)])

QTemplateInbox ==
    Answer([q |-> "template_inbox", st |-> "inbox", limit |-> Len(rows),
            res |-> TemplateInboxQuery(rows)])

QTemplateProcessed ==
    Answer([q |-> "template_processed", st |-> "processed", limit |-> Len(rows),
            res |-> TemplateStatusQuery(rows, "processed")])

QTemplateCurated ==
    Answer([q |-> "template_curated", st |-> "curated", limit |-> Len(rows),
            res |-> TemplateStatusQuery(rows, "curated")])

QWindow ==
    Answer([q |-> "window", groups |-> WindowQuery(rows, now)])

QToday ==
    Answer([q |-> "today", res |-> TodayQuery(rows, now)])

NextQuery ==
    \/ QStatusCounts
    \/ QDiagInbox
    \/ QDiagCurated
    \/ QScanInbox
    \/ QTemplateInbox
    \/ QTemplateProcessed
    \/ QTemplateCurated
    \/ QWindow
    \/ QToday

SpecQuery == InitQuery /\ [][NextQuery]_vars

\* ------------------------------------------------------------------
\* SpecTitle: every title display expression applied to a title
\* ------------------------------------------------------------------
InitTitle ==
    /\ NoRun
    /\ pc = "title"
    /\ rows = <<>>
    /\ now = [day |-> WindowDays + 1, hour |-> 0]
    /\ title \in Titles
    /\ shown = [q |-> "none"]

Show(site, w, text, marked) ==
    /\ pc = "title"
    /\ pc' = "shown"
    /\ shown' = [q |-> site, w |-> w, text |-> text, marked |-> marked]
    /\ UNCHANGED <<rows, now, title>>
    /\ UNCHANGED RunVars

ShowDiagInbox == Show("diag_inbox", InboxWidth, Display(title, InboxWidth), TRUE)

ShowDiagCurated == Show("diag_curated", CuratedWidth, Display(title, CuratedWidth), TRUE)

ShowDiagToday == Show("diag_today", TodayWidth, Display(title, TodayWidth), TRUE)

ShowScanInbox == Show("scan_inbox", ScanWidth, Display(title, ScanWidth), TRUE)

ShowTemplateProcessed ==
    Show("template_processed", TemplateWidth, DisplayCut(title, TemplateWidth), FALSE)

ShowTemplateCurated ==
    Show("template_curated", TemplateWidth, DisplayCut(title, TemplateWidth), FALSE)

NextTitle ==
    \/ ShowDiagInbox
    \/ ShowDiagCurated
    \/ ShowDiagToday
    \/ ShowScanInbox
    \/ ShowTemplateProcessed
    \/ ShowTemplateCurated

SpecTitle == InitTitle /\ [][NextTitle]_vars

\* ------------------------------------------------------------------
\* Properties of the queries
\* ------------------------------------------------------------------
RECURSIVE SumCounts(_)
SumCounts(groups) ==
    IF groups = <<>> THEN 0 ELSE Head(groups)[2] + SumCounts(Tail(groups))

GroupsOf(groups, st) == {j \in 1..Len(groups) : groups[j][1] = st}

\* C6: the printed TOTAL equals the sum of the printed per-status counts, and
\* every status of the table (NULL included) has exactly one group.
C6_TotalIsSumOfGroups ==
    shown.q = "counts" =>
        /\ SumCounts(shown.groups) = shown.total
        /\ \A i \in 1..Len(rows) : Cardinality(GroupsOf(shown.groups, rows[i].status)) = 1

C6_Witness ==
    /\ shown.q = "counts"
    /\ Len(shown.groups) >= 2
    /\ \E i \in 1..Len(rows) : rows[i].status = NullStatus
    /\ \E j \in 1..Len(shown.groups) : shown.groups[j][2] >= 2

IsListing == shown.q \in {"diag_inbox", "diag_curated", "scan_inbox",
                          "template_inbox", "template_processed", "template_curated"}

OnlyStatus(res, st) == \A i \in 1..Len(res) : res[i].status = st

NonIncreasing(res, key) ==
    \A i \in 1..Len(res) - 1 : TextLeq(res[i + 1][key], res[i][key])

\* C7 as stated: every per-status listing holds only rows of its status, is
\* non-increasing by createdAt and is no longer than its limit.
C7_AllListingsByCreatedAt ==
    IsListing =>
        /\ OnlyStatus(shown.res, shown.st)
        /\ NonIncreasing(shown.res, "createdAt")
        /\ Len(shown.res) <= shown.limit

\* C7 amended: every per-status listing holds only rows of its status and is
\* no longer than its LIMIT (15, 10, 5; the listings of list_template_items
\* have none); the inbox listings are non-increasing by createdAt, the curated
\* listing of diagnose_inbox is non-increasing by updatedAt (NULL last), and
\* the processed and curated listings of list_template_items have no order.
C7_ListingsAsQueried ==
    IsListing =>
        /\ OnlyStatus(shown.res, shown.st)
        /\ shown.q \in {"diag_inbox", "scan_inbox", "template_inbox"} =>
               NonIncreasing(shown.res, "createdAt")
        /\ shown.q = "diag_curated" => NonIncreasing(shown.res, "updatedAt")
        /\ shown.q = "diag_inbox" => Len(shown.res) <= InboxLimit
        /\ shown.q = "diag_curated" => Len(shown.res) <= CuratedLimit
        /\ shown.q = "scan_inbox" => Len(shown.res) <= ScanLimit

C7_Witness ==
    /\ shown.q = "diag_inbox"
    /\ Len(shown.res) = InboxLimit
    /\ Len(WhereStatus(rows, "inbox")) > InboxLimit
    /\ shown.res[1].createdAt # shown.res[InboxLimit].createdAt

\* the instant of row r is at or after the boundary, now minus 14 days
AtOrAfterBoundary(r, n) ==
    /\ r.createdAt # <<>>
    /\ \/ DayOf(r.createdAt) > n.day - WindowDays
       \/ DayOf(r.createdAt) = n.day - WindowDays /\ HourOf(r.createdAt) >= n.hour

\* C9: the rows counted by the 14 day window are exactly those created at or
\* after now minus 14 days, each once under its own status.
C9_WindowCountsExactlyRecent ==
    shown.q = "window" =>
        \A st \in {rows[i].status : i \in 1..Len(rows)} :
            LET want == Cardinality({i \in 1..Len(rows) :
                            rows[i].status = st /\ AtOrAfterBoundary(rows[i], now)})
                got == GroupsOf(shown.groups, st)
            IN  IF want = 0 THEN got = {}
                ELSE Cardinality(got) = 1 /\ \A j \in got : shown.groups[j][2] = want

\* ------------------------------------------------------------------
\* Properties of the title display
\* ------------------------------------------------------------------
\* C8 as stated: a title longer than W is shown as its first W characters
\* and the ellipsis, W+3 characters; a title of at most W characters, the
\* empty one included, is shown unchanged; a NULL title as the placeholder.
C8_TruncationAsStated ==
    pc = "shown" =>
        IF title = <<>> THEN shown.text = NoTitle
        ELSE IF Len(title[1]) > shown.w
             THEN /\ Len(shown.text) = shown.w + 3
                  /\ shown.text = SubSeq(title[1], 1, shown.w) \o Ellipsis
             ELSE shown.text = title[1]

\* C8 amended: in diagnose_inbox and scan_backups a title longer than W is
\* shown as its first W characters and the ellipsis (W+3 characters); in the
\* processed and curated listings of list_template_items it is cut to its
\* first 50 characters with no ellipsis; a non-empty title of at most W
\* characters is shown unchanged; a NULL or empty title as the placeholder.
C8_TruncationAsCoded ==
    pc = "shown" =>
        IF title = <<>> \/ title = <<<<>>>> THEN shown.text = NoTitle
        ELSE IF Len(title[1]) > shown.w
             THEN IF shown.marked
                  THEN /\ Len(shown.text) = shown.w + 3
                       /\ shown.text = SubSeq(title[1], 1, shown.w) \o Ellipsis
                  ELSE shown.text = SubSeq(title[1], 1, shown.w)
             ELSE shown.text = title[1]

C8_Witness ==
    /\ pc = "shown"
    /\ shown.q = "diag_inbox"
    /\ title # <<>>
    /\ Len(title[1]) = InboxWidth + 1
    /\ Len(shown.text) = InboxWidth + 3

\* ------------------------------------------------------------------
\* The scripts.  The file system the scripts look at:
\*   fs.appdir   %APPDATA%/doughub exists
\*   fs.db       kind of %APPDATA%/doughub/doughub.db
\*   fs.backups  %APPDATA%/doughub/backups exists
\*   fs.entries  kind of each entry of the backups directory
\*   fs.tdb      kind of %APPDATA%/doughub---template-react-ts/doughub.db
\* Kinds of a path:
\*   absent      nothing there
\*   valid       a database with a source_items table holding rows
\*   notable     a database without source_items (an empty file is one)
\*   corrupt     not a database: connect succeeds, the first statement raises
\*   damaged     source_items is there, a statement reading it may raise
\*   unopenable  connect raises (a directory, no permission)
\*   dangling    listed in the directory, but stat fails (a link whose
\*               target is gone, a file removed after the listing)
\*   plain       a file that is not a database candidate
\* ------------------------------------------------------------------
DbKinds == {"absent", "valid", "notable", "corrupt", "damaged", "unopenable"}

EntryKinds == {"absent", "valid", "notable", "corrupt", "damaged", "unopenable", "dangling"}

DotDb == <<Chr.dot, Chr.d, Chr.b>>
NameA == <<Chr.a>> \o DotDb                            \* a.db
NameB == <<Chr.b>> \o DotDb                            \* b.db
NameWal == NameA \o <<Chr.dash, Chr.w, Chr.a, Chr.l>>   \* a.db-wal
NameShm == NameA \o <<Chr.dash, Chr.s, Chr.h, Chr.m>>   \* a.db-shm
NameHidden == <<Chr.dot, Chr.h>> \o DotDb              \* .h.db
NameMain == <<Chr.d>> \o DotDb                         \* stands for doughub.db

DbNames == {NameA, NameB}
OtherNames == {NameWal, NameShm, NameHidden}
Names == DbNames \cup OtherNames

MainPath == [dir |-> "doughub", name |-> NameMain]
TemplatePath == [dir |-> "doughub---template-react-ts", name |-> NameMain]
BackupPath(n) == [dir |-> "backups", name |-> n]

\* rows of source_items during a run
RunRows ==
    {Row("inbox", Fmt(WindowDays + 1, 0, Chr.T), <<>>, <<TitleText(3, 1)>>),
     Row("curated", Fmt(1, 0, Chr.T), Fmt(2, 0, Chr.T), <<>>),
     Row(NullStatus, Fmt(0, 1, Chr.sp), <<>>, <<<<>>>>)}

RunTables == SeqsUpTo(RunRows, MaxRunRows)

\* ------------------------------------------------------------------
\* Database handles.  sqlite3.connect opens one; conn.close() closes it;
\* a connection object that is no longer referenced by conn or by a cursor is
\* deallocated (reference counting) and its handle is closed then.
\* ------------------------------------------------------------------
Opened(path, mode) == [id |-> nextId + 1, path |-> path, mode |-> mode]

\* conn = sqlite3.connect(...), succeeding
Connect(path, mode) ==
    /\ handles' = handles \cup {Opened(path, mode)}
    /\ nextId' = nextId + 1
    /\ conn' = <<nextId + 1>>

\* c = conn.cursor(): the cursor c referred to before is dropped, and with
\* it the last reference to its connection if conn has been rebound
Cursor ==
    /\ c' = conn
    /\ handles' = IF c # <<>> /\ c # conn
                  THEN {h \in handles : h.id # c[1]} ELSE handles
    /\ UNCHANGED <<nextId, conn>>

\* conn.close()
Closed == {h \in handles : h.id # conn[1]}

\* an exception leaves the script: the traceback is printed, the run ends
Crash(lines) ==
    /\ pc' = "crashed"
    /\ raised' = TRUE
    /\ out' = out \o lines

Line(tag) == [tag |-> tag]

\* whether a statement reading source_items raises on a database of this kind
MayRaise(kind) ==
    IF kind \in {"notable", "corrupt"} THEN {TRUE}
    ELSE IF kind = "damaged" THEN {TRUE, FALSE}
    ELSE {FALSE}

Items(res, w) ==
    [i \in 1..Len(res) |-> [title |-> Display(res[i].title, w), row |-> res[i]]]

ItemsCut(res, w) ==
    [i \in 1..Len(res) |-> [title |-> DisplayCut(res[i].title, w), row |-> res[i]]]

\* ------------------------------------------------------------------
\* diagnose_inbox.py
\* ------------------------------------------------------------------
\* print Database / Exists
DStart ==
    /\ script = "diagnose" /\ pc = "d_start"
    /\ out' = out \o <<[tag |-> "exists", v |-> fs.db # "absent"]>>
    /\ pc' = "d_connect"
    /\ UNCHANGED <<script, fs, fs0, rows, now, handles, nextId, conn, c, raised,
                   backup_files, k, title, shown>>

\* conn = sqlite3.connect(db_path): read-write, creating the file
DConnect ==
    /\ script = "diagnose" /\ pc = "d_connect"
    /\ IF fs.db = "unopenable" \/ (fs.db = "absent" /\ ~fs.appdir)
       THEN /\ Crash(<<>>)
            /\ UNCHANGED <<fs, handles, nextId, conn, c>>
       ELSE /\ fs' = IF fs.db = "absent" THEN [fs EXCEPT !.db = "notable"] ELSE fs
            /\ Connect(MainPath, "rwc")
            /\ c' = conn'
            /\ pc' = "d_counts"
            /\ UNCHANGED <<out, raised>>
    /\ UNCHANGED <<script, fs0, rows, now, backup_files, k, title, shown>>

\* a section of diagnose_inbox: print its heading, run its statement, print
DSection(at, next, heading, result) ==
    /\ script = "diagnose" /\ pc = at
    /\ \E fails \in MayRaise(fs.db) :
          IF fails
          THEN Crash(<<Line(heading)>>)
          ELSE /\ out' = out \o <<Line(heading)>> \o result
               /\ pc' = next
               /\ UNCHANGED raised
    /\ UNCHANGED <<script, fs, fs0, rows, now, handles, nextId, conn, c,
                   backup_files, k, title, shown>>

\* STATUS COUNTS: the GROUP BY statement, its rows, the COUNT(*) statement,
\* TOTAL; the second statement may raise after the groups are printed
DCounts ==
    \/ DSection("d_counts", "d_inbox", "STATUS COUNTS",
                <<[tag |-> "groups", groups |-> GroupByStatus(rows)],
                  [tag |-> "total", total |-> CountAll(rows)]>>)
    \/ /\ script = "diagnose" /\ pc = "d_counts" /\ fs.db = "damaged"
       /\ Crash(<<Line("STATUS COUNTS"), [tag |-> "groups", groups |-> GroupByStatus(rows)]>>)
       /\ UNCHANGED <<script, fs, fs0, rows, now, handles, nextId, conn, c,
                      backup_files, k, title, shown>>

DInbox ==
    DSection("d_inbox", "d_curated", "CURRENT INBOX ITEMS",
             <<[tag |-> "items", items |-> Items(DiagInboxQuery(rows), InboxWidth)]>>)

DCurated ==
    DSection("d_curated", "d_window", "RECENTLY CURATED",
             <<[tag |-> "items", items |-> Items(DiagCuratedQuery(rows), CuratedWidth)]>>)

DWindow ==
    DSection("d_window", "d_today", "ITEMS CREATED LAST 14 DAYS",
             <<[tag |-> "groups", groups |-> WindowQuery(rows, now)]>>)

DToday ==
    DSection("d_today", "d_close", "ITEMS CREATED TODAY",
             <<[tag |-> "items", items |-> Items(TodayQuery(rows, now), TodayWidth)]>>)

\* conn.close(); print "Diagnostic complete."
DClose ==
    /\ script = "diagnose" /\ pc = "d_close"
    /\ handles' = Closed
    /\ out' = out \o <<Line("Diagnostic complete.")>>
    /\ pc' = "done"
    /\ UNCHANGED <<script, fs, fs0, rows, now, nextId, conn, c, raised,
                   backup_files, k, title, shown>>

\* ------------------------------------------------------------------
\* list_template_items.py
\* ------------------------------------------------------------------
TStart ==
    /\ script = "template" /\ pc = "t_start"
    /\ out' = out \o <<Line("Template Database")>>
    /\ pc' = "t_connect"
    /\ UNCHANGED <<script, fs, fs0, rows, now, handles, nextId, conn, c, raised,
                   backup_files, k, title, shown>>

\* conn = sqlite3.connect("file:...?mode=ro", uri=True)
TConnect ==
    /\ script = "template" /\ pc = "t_connect"
    /\ IF fs.tdb \in {"absent", "unopenable"}
       THEN /\ Crash(<<>>)
            /\ UNCHANGED <<handles, nextId, conn, c>>
       ELSE /\ Connect(TemplatePath, "ro")
            /\ c' = conn'
            /\ pc' = "t_inbox"
            /\ UNCHANGED <<out, raised>>
    /\ UNCHANGED <<script, fs, fs0, rows, now, backup_files, k, title, shown>>

TSection(at, next, heading, result) ==
    /\ script = "template" /\ pc = at
    /\ \E fails \in MayRaise(fs.tdb) :
          IF fails
          THEN Crash(<<Line(heading)>>)
          ELSE /\ out' = out \o <<Line(heading)>> \o result
               /\ pc' = next
               /\ UNCHANGED raised
    /\ UNCHANGED <<script, fs, fs0, rows, now, handles, nextId, conn, c,
                   backup_files, k, title, shown>>

\* INBOX ITEMS: the title is printed as it is
TInbox ==
    TSection("t_inbox", "t_processed", "INBOX ITEMS",
             <<[tag |-> "items",
                items |-> [i \in 1..Len(TemplateInboxQuery(rows)) |->
                             [title |-> TemplateInboxQuery(rows)[i].title,
                              row |-> TemplateInboxQuery(rows)[i]]]]>>)

TProcessed ==
    TSection("t_processed", "t_curated", "PROCESSED ITEMS",
             <<[tag |-> "items",
                items |-> ItemsCut(TemplateStatusQuery(rows, "processed"), TemplateWidth)]>>)

TCurated ==
    TSection("t_curated", "t_version", "CURATED ITEMS",
             <<[tag |-> "items",
                items |-> ItemsCut(TemplateStatusQuery(rows, "curated"), TemplateWidth)]>>)

\* PRAGMA user_version reads the file header only; conn.close(); closing rule
TVersion ==
    /\ script = "template" /\ pc = "t_version"
    /\ handles' = Closed
    /\ out' = out \o <<Line("Schema version"), Line("closing rule")>>
    /\ pc' = "done"
    /\ UNCHANGED <<script, fs, fs0, rows, now, nextId, conn, c, raised,
                   backup_files, k, title, shown>>

\* ------------------------------------------------------------------
\* scan_backups.py
\* ------------------------------------------------------------------
\* glob "*.db": the name ends in .db and does not begin with a dot
GlobMatch(n) == EndsWith(n, DotDb) /\ n[1] # Chr.dot

\* the entries glob.glob returns, in the order the directory yields them
GlobResults ==
    LET found == IF fs.backups
                 THEN {n \in Names : fs.entries[n] # "absent" /\ GlobMatch(n)}
                 ELSE {}
    IN  {g \in [1..Cardinality(found) -> found] :
            \A i, j \in 1..Cardinality(found) : i # j => g[i] # g[j]}

\* sorted(): ascending by code point
RECURSIVE InsertAsc(_, _)
InsertAsc(s, n) ==
    IF s = <<>> THEN <<n>>
    ELSE IF TextLess(n, Head(s)) THEN <<n>> \o s
    ELSE <<Head(s)>> \o InsertAsc(Tail(s), n)

RECURSIVE Sorted(_)
Sorted(g) ==
    IF g = <<>> THEN <<>>
    ELSE InsertAsc(Sorted(SubSeq(g, 1, Len(g) - 1)), g[Len(g)])

\* [f for f in backup_files if not (f.endswith('.db-wal') or f.endswith('.db-shm'))]
NotSidecar(f) ==
    ~(EndsWith(f, DotDb \o <<Chr.dash, Chr.w, Chr.a, Chr.l>>)
      \/ EndsWith(f, DotDb \o <<Chr.dash, Chr.s, Chr.h, Chr.m>>))

BackupFiles(g) == SelectSeq(Sorted(g), NotSidecar)

ScanUnchanged == <<script, fs, fs0, rows, now, title, shown>>

\* print Backups directory / Exists
SStart ==
    /\ script = "scan" /\ pc = "s_start"
    /\ out' = out \o <<[tag |-> "exists", v |-> fs.backups]>>
    /\ pc' = "s_glob"
    /\ UNCHANGED <<handles, nextId, conn, c, raised, backup_files, k>>
    /\ UNCHANGED ScanUnchanged

\* backup_files = sorted(glob.glob(...)), the sidecar filter, print Found N
SGlob ==
    /\ script = "scan" /\ pc = "s_glob"
    /\ \E g \in GlobResults :
          /\ backup_files' = BackupFiles(g)
          /\ out' = out \o <<[tag |-> "found", n |-> Len(BackupFiles(g))]>>
    /\ k' = 1
    /\ pc' = "s_file"
    /\ UNCHANGED <<handles, nextId, conn, c, raised>>
    /\ UNCHANGED ScanUnchanged

\* for db_file in backup_files: os.path.getsize(db_file), print the header
SFile ==
    /\ script = "scan" /\ pc = "s_file"
    /\ IF k > Len(backup_files)
       THEN /\ pc' = "s_template"
            /\ UNCHANGED <<out, raised>>
       ELSE IF fs.entries[backup_files[k]] = "dangling"
            THEN Crash(<<>>)
            ELSE /\ out' = out \o <<[tag |-> "file", name |-> backup_files[k]]>>
                 /\ pc' = "s_connect"
                 /\ UNCHANGED raised
    /\ UNCHANGED <<handles, nextId, conn, c, backup_files, k>>
    /\ UNCHANGED ScanUnchanged

\* try: conn = sqlite3.connect("file:...?mode=ro", uri=True)
SConnect ==
    /\ script = "scan" /\ pc = "s_connect"
    /\ IF fs.entries[backup_files[k]] = "unopenable"
       THEN /\ out' = out \o <<Line("Error")>>
            /\ pc' = "s_blank"
            /\ UNCHANGED <<handles, nextId, conn>>
       ELSE /\ Connect(BackupPath(backup_files[k]), "ro")
            /\ pc' = "s_cursor"
            /\ UNCHANGED out
    /\ UNCHANGED <<c, raised, backup_files, k>>
    /\ UNCHANGED ScanUnchanged

\* c = conn.cursor()
SCursor ==
    /\ script = "scan" /\ pc = "s_cursor"
    /\ Cursor
    /\ pc' = "s_master"
    /\ UNCHANGED <<out, raised, backup_files, k>>
    /\ UNCHANGED ScanUnchanged

\* the sqlite_master check: a missing table is reported, the connection
\* closed and the loop continued; an exception goes to the except clause
SMaster ==
    /\ script = "scan" /\ pc = "s_master"
    /\ LET kind == fs.entries[backup_files[k]] IN
       IF kind = "corrupt"
       THEN /\ out' = out \o <<Line("Error")>>
            /\ pc' = "s_blank"
            /\ UNCHANGED <<handles, k>>
       ELSE IF kind = "notable"
       THEN /\ out' = out \o <<Line("table not found")>>
            /\ handles' = Closed
            /\ k' = k + 1
            /\ pc' = "s_file"
       ELSE /\ pc' = "s_counts"
            /\ UNCHANGED <<out, handles, k>>
    /\ UNCHANGED <<nextId, conn, c, raised, backup_files>>
    /\ UNCHANGED ScanUnchanged

\* GROUP BY, print "Status counts"; COUNT(*), print "Total items"
SCounts ==
    /\ script = "scan" /\ pc = "s_counts"
    /\ LET kind == fs.entries[backup_files[k]]
           counts == [tag |-> "groups", groups |-> GroupByStatus(rows)]
       IN  \/ /\ kind = "damaged"
              /\ out' = out \o <<Line("Error")>>
              /\ pc' = "s_blank"
           \/ /\ kind = "damaged"
              /\ out' = out \o <<counts, Line("Error")>>
              /\ pc' = "s_blank"
           \/ /\ out' = out \o <<counts, [tag |-> "total", total |-> CountAll(rows)]>>
              /\ pc' = "s_inbox"
    /\ UNCHANGED <<handles, nextId, conn, c, raised, backup_files, k>>
    /\ UNCHANGED ScanUnchanged

\* the inbox sample, then conn.close()
SInbox ==
    /\ script = "scan" /\ pc = "s_inbox"
    /\ \E fails \in MayRaise(fs.entries[backup_files[k]]) :
          IF fails
          THEN /\ out' = out \o <<Line("Error")>>
               /\ UNCHANGED handles
          ELSE /\ out' = out \o
                     (IF ScanInboxQuery(rows) = <<>> THEN <<>>
                      ELSE <<[tag |-> "items",
                              items |-> Items(ScanInboxQuery(rows), ScanWidth)]>>)
               /\ handles' = Closed
    /\ pc' = "s_blank"
    /\ UNCHANGED <<nextId, conn, c, raised, backup_files, k>>
    /\ UNCHANGED ScanUnchanged

\* print(): the end of the loop body
SBlank ==
    /\ script = "scan" /\ pc = "s_blank"
    /\ out' = out \o <<Line("")>>
    /\ k' = k + 1
    /\ pc' = "s_file"
    /\ UNCHANGED <<handles, nextId, conn, c, raised, backup_files>>
    /\ UNCHANGED ScanUnchanged

\* if os.path.exists(template_db): print Found / Size
STemplate ==
    /\ script = "scan" /\ pc = "s_template"
    /\ IF fs.tdb = "absent"
       THEN /\ pc' = "s_banner"
            /\ UNCHANGED out
       ELSE /\ out' = out \o <<Line("Found template database")>>
            /\ pc' = "s_tconnect"
    /\ UNCHANGED <<handles, nextId, conn, c, raised, backup_files, k>>
    /\ UNCHANGED ScanUnchanged

STConnect ==
    /\ script = "scan" /\ pc = "s_tconnect"
    /\ IF fs.tdb = "unopenable"
       THEN /\ out' = out \o <<Line("Error")>>
            /\ pc' = "s_banner"
            /\ UNCHANGED <<handles, nextId, conn>>
       ELSE /\ Connect(TemplatePath, "ro")
            /\ pc' = "s_tcursor"
            /\ UNCHANGED out
    /\ UNCHANGED <<c, raised, backup_files, k>>
    /\ UNCHANGED ScanUnchanged

STCursor ==
    /\ script = "scan" /\ pc = "s_tcursor"
    /\ Cursor
    /\ pc' = "s_tcheck"
    /\ UNCHANGED <<out, raised, backup_files, k>>
    /\ UNCHANGED ScanUnchanged

\* the template database: table check, COUNT(*), GROUP BY, prints, close
STCheck ==
    /\ script = "scan" /\ pc = "s_tcheck"
    /\ \/ /\ fs.tdb \in {"corrupt", "damaged"}
          /\ out' = out \o <<Line("Error")>>
          /\ UNCHANGED handles
       \/ /\ fs.tdb = "notable"
          /\ out' = out \o <<Line("table not found")>>
          /\ handles' = Closed
       \/ /\ fs.tdb \in {"valid", "damaged"}
          /\ out' = out \o <<[tag |-> "total", total |-> CountAll(rows)],
                             [tag |-> "groups", groups |-> GroupByStatus(rows)]>>
          /\ handles' = Closed
    /\ pc' = "s_banner"
    /\ UNCHANGED <<nextId, conn, c, raised, backup_files, k>>
    /\ UNCHANGED ScanUnchanged

\* print "Backup scan complete."
SBanner ==
    /\ script = "scan" /\ pc = "s_banner"
    /\ out' = out \o <<Line("Backup scan complete.")>>
    /\ pc' = "done"
    /\ UNCHANGED <<handles, nextId, conn, c, raised, backup_files, k>>
    /\ UNCHANGED ScanUnchanged

\* ------------------------------------------------------------------
\* Spec: one run of one script on one file system
\* ------------------------------------------------------------------
NoEntries == [n \in Names |-> "absent"]

Worlds(s) ==
    IF s = "diagnose" THEN
        {[appdir |-> TRUE, db |-> kd, backups |-> FALSE, entries |-> NoEntries,
          tdb |-> "absent"] : kd \in DbKinds}
        \cup {[appdir |-> FALSE, db |-> "absent", backups |-> FALSE,
               entries |-> NoEntries, tdb |-> "absent"]}
    ELSE IF s = "template" THEN
        {[appdir |-> FALSE, db |-> "absent", backups |-> FALSE, entries |-> NoEntries,
          tdb |-> kd] : kd \in DbKinds}
    ELSE
        {[appdir |-> TRUE, db |-> "absent", backups |-> TRUE, entries |-> e, tdb |-> kd] :
            e \in {f \in [Names -> EntryKinds \cup {"plain"}] :
                     /\ \A n \in DbNames : f[n] # "plain"
                     /\ \A n \in OtherNames : f[n] \in {"absent", "plain"}},
            kd \in DbKinds}
        \cup {[appdir |-> ad, db |-> "absent", backups |-> FALSE, entries |-> NoEntries,
               tdb |-> kd] : ad \in BOOLEAN, kd \in DbKinds}

Init ==
    /\ script \in {"diagnose", "template", "scan"}
    /\ pc = (IF script = "diagnose" THEN "d_start"
             ELSE IF script = "template" THEN "t_start" ELSE "s_start")
    /\ fs \in Worlds(script)
    /\ fs0 = fs
    /\ rows \in RunTables
    /\ now = [day |-> WindowDays + 1, hour |-> 0]
    /\ out = <<>>
    /\ handles = {}
    /\ nextId = 0
    /\ conn = <<>>
    /\ c = <<>>
    /\ raised = FALSE
    /\ backup_files = <<>>
    /\ k = 0
    /\ title = <<>>
    /\ shown = [q |-> "none"]

Next ==
    \/ DStart \/ DConnect \/ DCounts \/ DInbox \/ DCurated \/ DWindow \/ DToday \/ DClose
    \/ TStart \/ TConnect \/ TInbox \/ TProcessed \/ TCurated \/ TVersion
    \/ SStart \/ SGlob \/ SFile \/ SConnect \/ SCursor \/ SMaster \/ SCounts \/ SInbox
    \/ SBlank \/ STemplate \/ STConnect \/ STCursor \/ STCheck \/ SBanner

Spec == Init /\ [][Next]_vars

\* ------------------------------------------------------------------
\* Properties of the runs
\* ------------------------------------------------------------------
Ended == pc \in {"done", "crashed"}

\* C1: every connection is opened read-only and the run leaves the file
\* system as it found it: no file created, written or changed.
C1_ReadOnlyRun ==
    /\ \A h \in handles : h.mode = "ro"
    /\ fs = fs0

\* the top-level target of the run is absent when the run starts
TargetAbsent ==
    \/ script = "diagnose" /\ fs0.db = "absent"
    \/ script = "scan" /\ ~fs0.backups

\* C2: with the top-level target absent the run reports the absence, raises
\* nothing and ends at its completion banner.
C2_AbsentTargetCompletes ==
    TargetAbsent =>
        /\ pc # "crashed"
        /\ ~raised
        /\ pc = "done" =>
              /\ out[1] = [tag |-> "exists", v |-> FALSE]
              /\ out[Len(out)].tag \in {"Diagnostic complete.", "Backup scan complete."}

\* the target of the run exists, readable, without a source_items table
TableMissing ==
    \/ script = "diagnose" /\ fs0.db = "notable"
    \/ script = "template" /\ fs0.tdb = "notable"
    \/ /\ script = "scan"
       /\ \E n \in DbNames : fs0.entries[n] = "notable"
       /\ \A n \in DbNames : fs0.entries[n] \in {"absent", "valid", "notable"}

\* C3: a target without source_items is reported inline and the run still
\* ends at its closing banner, with no exception leaving the script.
C3_MissingTableTolerated ==
    TableMissing =>
        /\ pc # "crashed"
        /\ ~raised
        /\ pc = "done" => \E i \in 1..Len(out) : out[i].tag = "table not found"

\* the printed lines that open the report of a backup file, in order
Headers == SelectSeq([i \in 1..Len(out) |-> i], LAMBDA i : out[i].tag = "file")

\* the first line after the loop over the backup files
LoopEnd ==
    LET after == {i \in 1..Len(out) :
                    out[i].tag \in {"Found template database", "Backup scan complete."}}
    IN  IF after = {} THEN Len(out) + 1
        ELSE CHOOSE i \in after : \A j \in after : i <= j

\* the tags of the lines of the j-th report, after its header
ReportTags(j) ==
    LET last == IF j < Len(Headers) THEN Headers[j + 1] - 1 ELSE LoopEnd - 1
    IN  {out[i].tag : i \in (Headers[j] + 1)..last}

ErrorLines(j) ==
    LET last == IF j < Len(Headers) THEN Headers[j + 1] - 1 ELSE LoopEnd - 1
    IN  {i \in (Headers[j] + 1)..last : out[i].tag = "Error"}

ReportFits(j) ==
    LET kind == fs0.entries[backup_files[j]]
        tags == ReportTags(j)
    IN  /\ kind = "valid" => "total" \in tags /\ "groups" \in tags /\ "Error" \notin tags
        /\ kind = "notable" => tags = {"table not found"}
        /\ kind \in {"corrupt", "unopenable"} => "Error" \in tags /\ "total" \notin tags
        /\ kind = "damaged" => "Error" \in tags \/ "total" \in tags
        /\ Cardinality(ErrorLines(j)) <= 1

\* C4: the scan of any sequence of backup files (valid, without the table,
\* corrupt or unreadable) ends at "Backup scan complete." without raising,
\* with exactly one report per file, in order, of the kind the file calls for.
C4_PerFileIsolation ==
    (script = "scan" /\ Ended) =>
        /\ pc = "done"
        /\ ~raised
        /\ out[Len(out)].tag = "Backup scan complete."
        /\ Len(Headers) = Len(backup_files)
        /\ \A j \in 1..Len(Headers) :
              /\ out[Headers[j]].name = backup_files[j]
              /\ ReportFits(j)

\* C5: in the backup scan no handle is open when the next file (or the
\* template database) is opened or when the completion banner is printed,
\* and at most one handle is open at any time.
C5_HandlesScoped ==
    script = "scan" =>
        /\ Cardinality(handles) <= 1
        /\ pc \in {"s_file", "s_connect", "s_template", "s_tconnect", "s_banner", "done"} =>
               handles = {}

IsSidecar(n) ==
    \/ EndsWith(n, <<Chr.dash, Chr.w, Chr.a, Chr.l>>)
    \/ EndsWith(n, <<Chr.dash, Chr.s, Chr.h, Chr.m>>)

\* C10: the files scanned are exactly the directory entries matching *.db,
\* none a sidecar, in ascending order without repetition; each is processed
\* exactly once and "Found N" is the number of reports emitted.
C10_Enumeration ==
    (script = "scan" /\ pc \notin {"s_start", "s_glob"}) =>
        /\ {backup_files[i] : i \in 1..Len(backup_files)} =
               {n \in Names : fs0.backups /\ fs0.entries[n] # "absent" /\ GlobMatch(n)}
        /\ \A i \in 1..Len(backup_files) : ~IsSidecar(backup_files[i])
        /\ \A i \in 1..Len(backup_files) - 1 : TextLess(backup_files[i], backup_files[i + 1])
        /\ out[2] = [tag |-> "found", n |-> Len(backup_files)]
        /\ Ended =>
              /\ Len(Headers) = out[2].n
              /\ \A j \in 1..Len(Headers) : out[Headers[j]].name = backup_files[j]

====
